---- MODULE Spec2Model ----
(***************************************************************************)
(* gitbackup.py: mirror local git repositories into bare repositories      *)
(* under a destination directory.                                          *)
(*                                                                         *)
(* A path is a sequence of segments.  The state is the file system (the    *)
(* source repositories with their remotes and refs, the destination        *)
(* directory), the BackupManager object and the position of the running    *)
(* script.  The git engine (GitPython) is a collaborator: each of its      *)
(* mutating primitives may fail.                                           *)
(***************************************************************************)
EXTENDS Integers, Sequences, FiniteSets, TLC

----------------------------------------------------------------------------
(* Bounds *)

\* longest SOURCE... list given on the command line
MaxSources == 2

----------------------------------------------------------------------------
(* The file system the script is run on *)

\* DESTINATION (its name needs percent-encoding in a URL)
Dest == <<"my backup">>

\* every directory, listed in the order os.walk meets them (top-down)
DirOrder ==
  << <<"work">>,
     <<"work", "alpha">>,
     <<"work", "alpha", ".git">>,
     <<"work", "alpha", ".git", "refs">>,
     <<"work", "alpha", "sub">>,
     <<"work", "beta">>,
     <<"work", "beta", ".git">>,
     <<"work", "docs">>,
     <<"work", "x.github">>,
     <<"other">>,
     <<"other", "alpha">>,
     <<"other", "alpha", ".git">> >>

Dirs == {DirOrder[k] : k \in 1..Len(DirOrder)}

\* the directories that hold a .git directory
RepoRoots == {<<"work", "alpha">>, <<"work", "beta">>, <<"other", "alpha">>}

\* the SOURCE arguments a user gives (one of them spelled with a "." segment)
InputPaths ==
  { <<"work">>, <<"work", "alpha">>, <<"work", ".", "alpha">>,
    <<"work", "alpha", "sub">>, <<"other", "alpha">> }

\* the refs a repository may hold
RefIds == {"refs/heads/master"}

RemoteNames == {"gitbackup", "origin"}

OriginUrl == [scheme |-> "ssh", path |-> <<"example.org", "project">>]

NoRepo == <<"<None>">>

----------------------------------------------------------------------------
(* Pure helpers *)

IsPrefix(p, q) == Len(p) <= Len(q) /\ SubSeq(q, 1, Len(p)) = p

\* os.path.abspath: "." segments are dropped
abspath(source) == SelectSeq(source, LAMBDA s : s # ".")

\* os.path.split(source)[1]
split_tail(source) == IF Len(source) = 0 THEN "" ELSE source[Len(source)]

\* os.path.join(dest, name)
join(dest, name) == Append(dest, name)

\* quote that encodes nothing
quote_Identity(seg) == seg

\* urllib.quote on one segment: every character outside letters, digits and
\* "_.-" is percent-encoded
quote(seg) == IF seg = "my backup" THEN "my%20backup" ELSE seg

\* urllib.pathname2url
pathname2url(path) == [k \in 1..Len(path) |-> quote(path[k])]

\* 'file://%s' % ...
file_url(path) == [scheme |-> "file", path |-> path]

\* '.git' in dirpath: a substring test on the whole path string
HasDotGit(seg) == seg \in {".git", "x.github"}
DotGitIn(dirpath) == \E k \in 1..Len(dirpath) : HasDotGit(dirpath[k])

\* os.walk(source): source and every directory below it, top-down
walk(source) == SelectSeq(DirOrder, LAMBDA d : IsPrefix(source, d))

\* git.Repo(source): the repository whose working directory is source or the
\* nearest parent of it; None when there is none
Repo(source) ==
  LET roots == {r \in RepoRoots : IsPrefix(r, source)}
  IN  IF roots = {} THEN NoRepo
      ELSE CHOOSE r \in roots : \A q \in roots : Len(q) <= Len(r)

\* Mirror.__init__
Mirror(remote_name, source, dest) ==
  LET project_name == split_tail(source)
      remote_path  == join(dest, project_name)
  IN  [ remote_name  |-> remote_name,
        source       |-> source,
        project_name |-> project_name,
        remote_path  |-> remote_path,
        remote_url   |-> file_url(pathname2url(remote_path)),
        repo         |-> Repo(source) ]

\* a class without __eq__: two Mirror objects are never equal
MirrorEq_Identity(self, other) == FALSE

\* Mirror.__eq__
MirrorEq(self, other) == self.repo = other.repo

\* mirror in mirrors
MirrorIn(mirror, mirrors) == \E k \in 1..Len(mirrors) : MirrorEq(mirror, mirrors[k])

\* a walk that appends every directory it finds
Listed_Never(dirpath, acc) == FALSE

\* line 80: dirpath in self.sources
Listed(dirpath, acc) == \E k \in 1..Len(acc) : acc[k] = dirpath

\* the inner loop of BackupManager.__init__ over one os.walk
RECURSIVE AddWalked(_, _)
AddWalked(acc, dirpaths) ==
  IF dirpaths = <<>> THEN acc
  ELSE LET dirpath == Head(dirpaths)
       IN  IF DotGitIn(dirpath) THEN AddWalked(acc, Tail(dirpaths))
           ELSE IF Listed(dirpath, acc)
                THEN AddWalked(acc, Tail(dirpaths))
                ELSE AddWalked(Append(acc, dirpath), Tail(dirpaths))

\* the outer loop of BackupManager.__init__ in recursive mode
RECURSIVE WalkAll(_, _)
WalkAll(acc, srcs) ==
  IF srcs = <<>> THEN acc
  ELSE WalkAll(AddWalked(acc, walk(Head(srcs))), Tail(srcs))

\* BackupManager.__init__: self.sources
ManagerSources(srcs, rec) ==
  LET abs == [k \in 1..Len(srcs) |-> abspath(srcs[k])]
  IN  IF rec THEN WalkAll(<<>>, abs) ELSE abs

----------------------------------------------------------------------------
(* State *)

VARIABLES
  recursive,     \* BackupManager.recursive
  force_remote,  \* BackupManager.force_remote
  sources,       \* BackupManager.sources: the candidate directories
  pc,            \* position of the script: "build", "update", "done", "fatal", "crashed";
                 \* before that: "options", "exit", "manager"
  i,             \* build_mirrors: index of the next candidate in sources
  mirrors,       \* build_mirrors: the list of accepted mirrors
  j,             \* update_all: index of the next mirror to update
  dirty,         \* repo.is_dirty() of every source repository
  remotes,       \* repo.remotes of every source repository: name -> url
  refs,          \* the refs of every source repository
  bare,          \* the destination directory: per mirror path, existence and refs
  stdout,        \* what was printed
  stderr,        \* what write_error wrote
  log,           \* the git primitives called in this run, in order
  lastUpdate,    \* the last call of update, when nothing changed a source since:
                 \* its source, whether it returned, and whether it followed a
                 \* call on the same source that returned, or one that raised
  args,          \* sys.argv after the program name
  options        \* the Options object, or how its construction ended

vars == << recursive, force_remote, sources, pc, i, mirrors, j,
           dirty, remotes, refs, bare, stdout, stderr, log, lastUpdate,
           args, options >>

opts  == << recursive, force_remote, sources, args, options >>
fs    == << dirty, remotes, refs, bare >>
out   == << stdout, stderr >>

\* Options.remote_name: the default
remote_name == "gitbackup"

DestPaths == {join(Dest, split_tail(d)) : d \in Dirs}

NoUpdate == [source |-> NoRepo, ok |-> FALSE, again |-> FALSE, retry |-> FALSE]

\* Options.remote_name after "-f" and before a name was read
None == "<None>"

\* lines 112-114: the attributes Options.__init__ starts with
NotParsed ==
  [status |-> "none", message |-> "", recursive |-> FALSE, force_remote |-> FALSE,
   remote_name |-> remote_name, args |-> <<>>, sources |-> <<>>, dest |-> None]

\* the SOURCE... lists of a command line (opts.sources)
SourceLists == UNION {[1..n -> InputPaths] : n \in 1..MaxSources}

\* the URLs a repository may already hold under the configured name: the one
\* this script gives it, or the same path written without percent-encoding
StaleUrl(source) == file_url(join(Dest, split_tail(source)))

WithBackupRemote(url) ==
  [n \in RemoteNames |-> IF n = "origin" THEN OriginUrl ELSE url]

\* the remotes a source repository starts with
InitialRemotes(r) ==
  CASE r = <<"work", "alpha">> ->
         { [n \in {"origin"} |-> OriginUrl],
           WithBackupRemote(Mirror(remote_name, r, Dest).remote_url),
           WithBackupRemote(StaleUrl(r)) }
    [] OTHER ->
         { [n \in {"origin"} |-> OriginUrl] }

InitialRefs == [r \in RepoRoots |-> {"refs/heads/master"}]

\* the source repositories that may have uncommitted changes
MayBeDirty == {<<"work", "alpha">>, <<"other", "alpha">>}

Init ==
  /\ recursive \in BOOLEAN
  /\ force_remote \in BOOLEAN
  /\ \E argv \in SourceLists : sources = ManagerSources(argv, recursive)
  /\ pc = "build"
  /\ i = 1
  /\ mirrors = <<>>
  /\ j = 1
  /\ dirty \in [RepoRoots -> BOOLEAN]
  /\ \A r \in RepoRoots : dirty[r] => r \in MayBeDirty
  /\ remotes \in [RepoRoots -> UNION {InitialRemotes(r) : r \in RepoRoots}]
  /\ \A r \in RepoRoots : remotes[r] \in InitialRemotes(r)
  /\ refs = InitialRefs
  /\ \E e \in BOOLEAN :
       bare = [p \in DestPaths |->
                 [exists |-> e /\ p = join(Dest, "alpha"), refs |-> {}]]
  /\ stdout = <<>>
  /\ stderr = <<>>
  /\ log = <<>>
  /\ lastUpdate = NoUpdate
  /\ args = <<>>
  /\ options = NotParsed

----------------------------------------------------------------------------
(* Mirror.prepare *)

HasRemote(repo, name) == name \in DOMAIN remotes[repo]

\* prepare without the is_dirty() test
prepare_NoDirtyTest(self, force) ==
  IF self.repo = NoRepo THEN "NotGit"
  ELSE IF self.source # self.repo THEN "ParentGit"
  ELSE IF /\ HasRemote(self.repo, self.remote_name)
          /\ remotes[self.repo][self.remote_name] # self.remote_url
          /\ ~force
       THEN "NameInUse"
  ELSE "ok"

\* prepare without the test of the remote name
prepare_NoRemoteTest(self, force) ==
  IF self.repo = NoRepo THEN "NotGit"
  ELSE IF self.source # self.repo THEN "ParentGit"
  ELSE IF dirty[self.repo] THEN "Dirty"
  ELSE "ok"

prepare(self, force) ==
  IF self.repo = NoRepo THEN "NotGit"
  ELSE IF self.source # self.repo THEN "ParentGit"
  ELSE IF dirty[self.repo] THEN "Dirty"
  ELSE IF /\ HasRemote(self.repo, self.remote_name)
          /\ remotes[self.repo][self.remote_name] # self.remote_url
          /\ ~force
       THEN "NameInUse"
  ELSE "ok"

\* the text of the exception prepare raises
Reason(outcome) ==
  CASE outcome = "NotGit"    -> "Source directory not managed by git."
    [] outcome = "ParentGit" -> "Parent directory is managed by git."
    [] outcome = "Dirty"     -> "Source repository is dirty."
    [] outcome = "NameInUse" -> "Remote name gitbackup already in use."

IsMirrorError(outcome)   == outcome \in {"Dirty", "NameInUse"}
IsMirrorWarning(outcome) == outcome \in {"NotGit", "ParentGit"}

\* the test of self.recursive inverted
ReportsWarning_Inverted(rec) == rec

\* if not self.recursive: whether a MirrorWarning is written to stderr
ReportsWarning(rec) == ~rec

\* line 45: the print before the second MirrorWarning
PrepareOutput(self, outcome) ==
  IF outcome = "ParentGit" THEN << <<self.source, self.repo>> >> ELSE <<>>

\* write_error('Skipping "%s": ' % mirror.source, reason)
Skipping(self, outcome) ==
  [base_msg |-> "Skipping", path |-> self.source, reason |-> Reason(outcome)]

----------------------------------------------------------------------------
(* BackupManager.build_mirrors, one iteration of its loop per step *)

Candidate == Mirror(remote_name, sources[i], Dest)

Building == pc = "build" /\ i <= Len(sources)

\* except MirrorError
BuildSkipError ==
  /\ Building
  /\ LET mirror == Candidate
         outcome == prepare(mirror, force_remote)
     IN  /\ IsMirrorError(outcome)
         /\ stderr' = Append(stderr, Skipping(mirror, outcome))
         /\ stdout' = stdout \o PrepareOutput(mirror, outcome)
  /\ i' = i + 1
  /\ UNCHANGED << opts, fs, pc, mirrors, j, log, lastUpdate >>

\* except MirrorWarning
BuildSkipWarning ==
  /\ Building
  /\ LET mirror == Candidate
         outcome == prepare(mirror, force_remote)
     IN  /\ IsMirrorWarning(outcome)
         /\ stderr' = IF ReportsWarning(recursive)
                      THEN Append(stderr, Skipping(mirror, outcome))
                      ELSE stderr
         /\ stdout' = stdout \o PrepareOutput(mirror, outcome)
  /\ i' = i + 1
  /\ UNCHANGED << opts, fs, pc, mirrors, j, log, lastUpdate >>

\* else: mirrors.append(mirror)
BuildAccept ==
  /\ Building
  /\ LET mirror == Candidate
     IN  /\ prepare(mirror, force_remote) = "ok"
         /\ ~MirrorIn(mirror, mirrors)
         /\ mirrors' = Append(mirrors, mirror)
  /\ i' = i + 1
  /\ UNCHANGED << opts, fs, out, pc, j, log, lastUpdate >>

\* else: raise BackupError, caught in __main__: write_error, sys.exit(1)
BuildDuplicate ==
  /\ Building
  /\ LET mirror == Candidate
     IN  /\ prepare(mirror, force_remote) = "ok"
         /\ MirrorIn(mirror, mirrors)
         /\ stderr' = Append(stderr,
                        [base_msg |-> "Backup failed", path |-> mirror.source,
                         reason |-> "Duplicate project name"])
  /\ pc' = "fatal"
  /\ UNCHANGED << opts, fs, stdout, i, mirrors, j, log, lastUpdate >>

\* return mirrors
BuildReturn ==
  /\ pc = "build"
  /\ i > Len(sources)
  /\ pc' = "update"
  /\ UNCHANGED << opts, fs, out, i, mirrors, j, log, lastUpdate >>

----------------------------------------------------------------------------
(* Mirror.update *)

\* update that recreates the remote on every call
ReconcileOps_Always(self) ==
  IF ~HasRemote(self.repo, self.remote_name) THEN << "create_remote" >>
  ELSE << "delete_remote", "create_remote" >>

\* lines 55-60: the remote primitives update calls
ReconcileOps(self) ==
  IF ~HasRemote(self.repo, self.remote_name) THEN << "create_remote" >>
  ELSE IF remotes[self.repo][self.remote_name] # self.remote_url
       THEN << "delete_remote", "create_remote" >>
       ELSE << >>

\* Repo.init called whether or not the path exists
InitOps_Always(self) == << "init" >>

\* lines 62-63
InitOps(self) ==
  IF ~bare[self.remote_path].exists THEN << "init" >> ELSE << >>

\* line 65
PushOps(self) == << "push" >>

\* an update that pushes before it has prepared the remote and the path
Plan_PushFirst(self) == PushOps(self) \o ReconcileOps(self) \o InitOps(self)

\* the primitives one call of update makes when none of them fails
Plan(self) == ReconcileOps(self) \o InitOps(self) \o PushOps(self)

\* the primitives among the first n of the plan
Did(plan, n, op) == \E k \in 1..n : plan[k] = op

\* the primitive that raised, when only n of the plan succeeded
Failed(plan, n, op) == n < Len(plan) /\ plan[n + 1] = op

\* create_remote that replaces the whole remote configuration
RemotesAfter_DropsOthers(self, plan, n) ==
  LET old == remotes[self.repo]
  IN  IF Did(plan, n, "create_remote")
      THEN [name \in {self.remote_name} |-> self.remote_url]
      ELSE IF Did(plan, n, "delete_remote")
      THEN [name \in DOMAIN old \ {self.remote_name} |-> old[name]]
      ELSE old

\* an update that undoes its remote changes when a later primitive raises
RemotesAfter_Rollback(self, plan, n) ==
  LET old == remotes[self.repo]
  IN  IF n < Len(plan) THEN old
      ELSE IF Did(plan, n, "create_remote")
      THEN [name \in DOMAIN old \cup {self.remote_name} |->
              IF name = self.remote_name THEN self.remote_url ELSE old[name]]
      ELSE old

\* repo.create_remote / repo.delete_remote on the remotes of self.repo
RemotesAfter(self, plan, n) ==
  LET old == remotes[self.repo]
  IN  IF Did(plan, n, "create_remote")
      THEN [name \in DOMAIN old \cup {self.remote_name} |->
              IF name = self.remote_name THEN self.remote_url ELSE old[name]]
      ELSE IF Did(plan, n, "delete_remote")
      THEN [name \in DOMAIN old \ {self.remote_name} |-> old[name]]
      ELSE old

\* push(mirror=True) that raised: each ref is either updated or left as it was
PartialPush(old, new) ==
  {S \in SUBSET (old \cup new) : \A r \in old \cup new : (r \in S) \in {r \in old, r \in new}}

\* git.Repo.init(bare=True, mkdir=True) and push(mirror=True) on the mirror path
BareAfter(self, plan, n) ==
  LET old == bare[self.remote_path]
  IN  IF Did(plan, n, "push")
      THEN {[exists |-> TRUE, refs |-> refs[self.repo]]}
      ELSE IF Failed(plan, n, "push")
      THEN {[exists |-> TRUE, refs |-> S] : S \in PartialPush(old.refs, refs[self.repo])}
      ELSE IF Did(plan, n, "init")
      THEN {[exists |-> TRUE, refs |-> {}]}
      ELSE IF Failed(plan, n, "init")
      THEN {[exists |-> e, refs |-> {}] : e \in BOOLEAN}
      ELSE {old}

\* what the call adds to the log: the primitives that ran, the last one
\* marked when it raised
Calls(self, plan, n) ==
  [k \in 1..(IF n < Len(plan) THEN n + 1 ELSE n) |->
     [op |-> plan[k], source |-> self.source, ok |-> k <= n]]

\* one call of mirror.update() in which the first n primitives succeed
Update(self, n) ==
  LET plan == Plan(self)
  IN  /\ remotes' = [remotes EXCEPT ![self.repo] = RemotesAfter(self, plan, n)]
      /\ \E b \in BareAfter(self, plan, n) :
           bare' = [bare EXCEPT ![self.remote_path] = b]
      /\ log' = log \o Calls(self, plan, n)
      /\ lastUpdate' = [source |-> self.source, ok |-> n = Len(plan),
                        again |-> lastUpdate.ok /\ lastUpdate.source = self.source,
                        retry |-> ~lastUpdate.ok /\ lastUpdate.source = self.source]

\* build_mirrors as a generator: a mirror is updated as soon as it is accepted
Updating_Lazy == pc \in {"build", "update"} /\ j <= Len(mirrors)

Updating == pc = "update" /\ j <= Len(mirrors)

\* a loop over the reversed list
Current_Reversed(ms, idx) == ms[Len(ms) + 1 - idx]

\* for mirror in self.build_mirrors(): the mirror of the idx-th iteration
Current(ms, idx) == ms[idx]

\* update_all: mirror.update() returns
UpdateOk ==
  /\ Updating
  /\ LET mirror == Current(mirrors, j)
     IN  Update(mirror, Len(Plan(mirror)))
  /\ j' = j + 1
  /\ UNCHANGED << opts, dirty, refs, out, pc, i, mirrors >>

\* update_all: mirror.update() raises; nothing catches it, the script dies
UpdateRaises ==
  /\ Updating
  /\ LET mirror == Current(mirrors, j)
     IN  \E n \in 0..(Len(Plan(mirror)) - 1) : Update(mirror, n)
  /\ pc' = "crashed"
  /\ UNCHANGED << opts, dirty, refs, out, i, mirrors, j >>

\* update_all returns, the script ends with exit code 0
Finish ==
  /\ pc = "update"
  /\ j > Len(mirrors)
  /\ pc' = "done"
  /\ UNCHANGED << opts, fs, out, i, mirrors, j, log, lastUpdate >>

----------------------------------------------------------------------------
(* The environment between two runs *)

Ended == pc \in {"done", "fatal", "crashed"}

\* somebody creates or deletes a ref of a source repository that is backed up
Commit ==
  /\ Ended
  /\ \E k \in 1..Len(mirrors), S \in SUBSET RefIds :
       /\ S # refs[mirrors[k].repo]
       /\ refs' = [refs EXCEPT ![mirrors[k].repo] = S]
  /\ lastUpdate' = NoUpdate
  /\ UNCHANGED << opts, dirty, remotes, bare, out, pc, i, mirrors, j, log >>

\* the script is started again with the same command line, which gives the
\* same candidates
Restart ==
  /\ Ended
  /\ pc' = "build"
  /\ i' = 1
  /\ mirrors' = <<>>
  /\ j' = 1
  /\ stdout' = <<>>
  /\ stderr' = <<>>
  /\ log' = <<>>
  /\ UNCHANGED << opts, fs, lastUpdate >>

Next ==
  \/ BuildSkipError
  \/ BuildSkipWarning
  \/ BuildAccept
  \/ BuildDuplicate
  \/ BuildReturn
  \/ UpdateOk
  \/ UpdateRaises
  \/ Finish
  \/ Commit
  \/ Restart

Spec == Init /\ [][Next]_vars

----------------------------------------------------------------------------
(* Helpers of the properties *)

LogIdx == 1..Len(log)

\* update was called on the k-th accepted mirror in this run
Invoked(k) == \E e \in LogIdx : log[e].source = mirrors[k].source

\* a primitive raised during the update of the k-th accepted mirror
UpdateFailed(k) == \E e \in LogIdx : log[e].source = mirrors[k].source /\ ~log[e].ok

\* the calls of one primitive made for one source in this run
CallsOf(op, source) == {e \in LogIdx : log[e].op = op /\ log[e].source = source}

\* the "Skipping" lines on stderr that name a path
SkipsOf(path) ==
  {e \in 1..Len(stderr) : stderr[e].base_msg = "Skipping" /\ stderr[e].path = path}

\* the candidates build_mirrors has dealt with so far
Processed == 1..(i - 1)

----------------------------------------------------------------------------
(* C1 *)

\* the accepted mirrors have pairwise different destination paths
DistinctDestinations ==
  \A k, l \in 1..Len(mirrors) :
    k # l => mirrors[k].remote_path # mirrors[l].remote_path

\* C1: a failure while updating one accepted mirror is caught and does not
\* stop the batch: when the run has ended, update has been invoked on every
\* mirror that comes after one whose update failed (stated for the runs
\* whose mirrors have different destinations, which is enough to refute it).
C1_FailureDoesNotStopBatch ==
  (Ended /\ DistinctDestinations) =>
    \A k \in 1..Len(mirrors) :
      UpdateFailed(k) => \A l \in (k + 1)..Len(mirrors) : Invoked(l)

----------------------------------------------------------------------------
(* C2 *)

\* C2: two distinct source paths with the same final segment that both pass
\* validation abort the run: no two accepted mirrors share a destination
\* mirror path, and update is invoked on neither.
C2_NoSharedMirrorPath ==
  /\ DistinctDestinations
  /\ \A e, f \in LogIdx :
       log[e].source # log[f].source =>
         join(Dest, split_tail(log[e].source)) # join(Dest, split_tail(log[f].source))

----------------------------------------------------------------------------
(* C3 *)

\* C3: a dirty source repository is never accepted: it is not among the
\* mirrors, no git primitive (remote creation or deletion, init of a mirror
\* directory, push) is called for it, and no step changes its remotes.
C3_DirtyNeverUpdated ==
  /\ [](/\ \A k \in 1..Len(mirrors) : ~dirty[mirrors[k].repo]
        /\ \A e \in LogIdx : ~dirty[Repo(log[e].source)])
  /\ [][\A r \in RepoRoots : dirty[r] => remotes'[r] = remotes[r]]_vars

\* a run in which a dirty repository was a candidate, and another was updated
C3_Witness ==
  /\ pc = "done"
  /\ log # <<>>
  /\ \E k \in Processed : sources[k] \in RepoRoots /\ dirty[sources[k]]

----------------------------------------------------------------------------
(* C4 *)

\* the configured remote name is in use on a clean source, for another URL
Conflict(r) ==
  /\ r \in RepoRoots
  /\ ~dirty[r]
  /\ HasRemote(r, remote_name)
  /\ remotes[r][remote_name] # [scheme |-> "file", path |-> <<"my%20backup", split_tail(r)>>]

\* C4: without force-remote, a clean source whose remote of the configured
\* name has another URL is reported on stderr and excluded: once validated
\* it is not among the mirrors, no git primitive is called for it (no mirror
\* directory is created for it), and no step changes its remotes.
C4_ConflictLeavesSourceAlone ==
  /\ [](~force_remote =>
          \A k \in Processed :
            Conflict(sources[k]) =>
              /\ \A m \in 1..Len(mirrors) : mirrors[m].source # sources[k]
              /\ \A e \in LogIdx : log[e].source # sources[k]
              /\ \E e \in SkipsOf(sources[k]) :
                   stderr[e].reason = "Remote name gitbackup already in use.")
  /\ [][\A r \in RepoRoots :
          (~force_remote /\ Conflict(r)) => remotes'[r] = remotes[r]]_vars

\* a run that met such a source and went on to update another mirror
C4_Witness ==
  /\ pc = "done"
  /\ ~force_remote
  /\ log # <<>>
  /\ \E k \in Processed : Conflict(sources[k])

----------------------------------------------------------------------------
(* C5 *)

\* the URL of the mirror of a project, as the remote must hold it
ExpectedUrl(project) == [scheme |-> "file", path |-> <<"my%20backup", project>>]

\* C5: after an update that returned, the configured remote name of the
\* source points at the mirror URL and the mirror's refs equal the source's
\* refs; when the source had no remote of that name, the update creates it
\* with exactly one create_remote call and deletes nothing.
C5_UpdateBindsRemoteAndMirrorsRefs ==
  /\ [](lastUpdate.ok =>
          LET s == lastUpdate.source
          IN  /\ HasRemote(s, remote_name)
              /\ remotes[s][remote_name] = ExpectedUrl(split_tail(s))
              /\ bare[<<"my backup", split_tail(s)>>]
                   = [exists |-> TRUE, refs |-> refs[s]])
  /\ [][(/\ Updating
         /\ ~HasRemote(Current(mirrors, j).repo, remote_name)
         /\ lastUpdate'.ok)
        => LET s == Current(mirrors, j).source
               new == {e \in 1..Len(log') : e > Len(log) /\ log'[e].source = s}
           IN  /\ Cardinality({e \in new : log'[e].op = "create_remote"}) = 1
               /\ \A e \in new : log'[e].op # "delete_remote"
               /\ DOMAIN remotes'[s] = DOMAIN remotes[s] \cup {remote_name}
               /\ \A n \in DOMAIN remotes[s] : remotes'[s][n] = remotes[s][n]]_vars

\* a first update of a source without the remote has returned
C5_Witness ==
  /\ lastUpdate.ok
  /\ CallsOf("create_remote", lastUpdate.source) # {}
  /\ CallsOf("delete_remote", lastUpdate.source) = {}
  /\ CallsOf("init", lastUpdate.source) # {}

----------------------------------------------------------------------------
(* C6 *)

\* C6: update is idempotent: a call of update that directly follows a call
\* on the same source that returned, with no change of the source between
\* them, leaves every remote and the mirror as the first call left them, and
\* calls neither create_remote nor delete_remote nor init, only push.
C6_UpdateIdempotent ==
  [][(/\ Updating
      /\ lastUpdate.ok
      /\ lastUpdate.source = mirrors[j].source)
     => /\ remotes' = remotes
        /\ bare' = bare
        /\ \A e \in 1..Len(log') : e > Len(log) => log'[e].op = "push"]_vars

\* a second call in succession has returned
C6_Witness ==
  /\ lastUpdate.ok
  /\ lastUpdate.again
  /\ CallsOf("push", lastUpdate.source) # {}

----------------------------------------------------------------------------
(* C7 *)

\* C7: a run that ends with the duplicate-project error has called no git
\* primitive: no remote created or deleted, no bare repository initialized,
\* no push, also not for the mirrors accepted before the duplicate.
C7_FatalBeforeAnyUpdate ==
  pc = "fatal" => log = <<>> /\ j = 1

\* a run aborted on a duplicate, with a mirror accepted before it
C7_Witness ==
  /\ pc = "fatal"
  /\ mirrors # <<>>
  /\ stderr[Len(stderr)].base_msg = "Backup failed"

----------------------------------------------------------------------------
(* C8 *)

\* the outcome of validating a candidate directory
Validation(source) == prepare(Mirror(remote_name, source, Dest), force_remote)

\* C8: in recursive mode a candidate that is not under version control, or
\* is not the root of its repository, is excluded silently: nothing on
\* stderr and nothing on stdout names it; the accepted mirrors are exactly
\* the candidates dealt with that are repository roots passing validation.
C8_RecursiveSilentExclusion ==
  recursive =>
    /\ \A k \in Processed :
         IsMirrorWarning(Validation(sources[k])) =>
           /\ SkipsOf(sources[k]) = {}
           /\ \A e \in 1..Len(stdout) : stdout[e][1] # sources[k]
    /\ {mirrors[m].source : m \in 1..Len(mirrors)}
         = {sources[k] : k \in {n \in Processed : Validation(sources[n]) = "ok"}}

----------------------------------------------------------------------------
(* C9 *)

\* a validation failure that is written to stderr
Reportable(source) ==
  \/ IsMirrorError(Validation(source))
  \/ IsMirrorWarning(Validation(source)) /\ ~recursive

----------------------------------------------------------------------------
(* C10 *)

\* the position of a source among the accepted mirrors, and among the candidates
Pos(source) == CHOOSE k \in 1..Len(mirrors) : mirrors[k].source = source
FirstAt(source) ==
  CHOOSE k \in 1..Len(sources) :
    sources[k] = source /\ \A n \in 1..(k - 1) : sources[n] # source

\* C10: the mirrors are accepted in the order of discovery and updated one
\* after the other in that order: every git primitive called for a mirror
\* comes before every primitive called for a later mirror, and no mirror is
\* updated twice in a run.
C10_SequentialInOrder ==
  /\ \A k, l \in 1..Len(mirrors) :
       k < l => /\ mirrors[k].source # mirrors[l].source
                /\ FirstAt(mirrors[k].source) < FirstAt(mirrors[l].source)
  /\ \A e \in LogIdx : \E k \in 1..Len(mirrors) : mirrors[k].source = log[e].source
  /\ \A e, f \in LogIdx : e < f => Pos(log[e].source) <= Pos(log[f].source)
  /\ \A k \in 1..Len(mirrors), op \in {"create_remote", "delete_remote", "init", "push"} :
       Cardinality(CallsOf(op, mirrors[k].source)) <= 1

\* two mirrors have been updated
C10_Witness ==
  /\ pc = "done"
  /\ Len(mirrors) = 2
  /\ \A k \in 1..2 : CallsOf("push", mirrors[k].source) # {}

----------------------------------------------------------------------------
(* C11 *)

\* the line '"<source>" successfully mirrored.' as an entry of stdout
SuccessLine(source) == << source, << "successfully mirrored." >> >>

\* C11: every mirror whose update completes produces one success line on
\* stdout that names its source, and no success line is produced for a
\* mirror that was skipped or whose update failed.
C11_SuccessNotified ==
  /\ \A e \in LogIdx :
       (log[e].op = "push" /\ log[e].ok) =>
         \E n \in 1..Len(stdout) : stdout[n] = SuccessLine(log[e].source)
  /\ \A n \in 1..Len(stdout), d \in Dirs :
       stdout[n] = SuccessLine(d) =>
         \E e \in LogIdx : log[e].op = "push" /\ log[e].ok /\ log[e].source = d

----------------------------------------------------------------------------
(* C12 *)

\* lines 190-199: the exit code of a run that has ended. An exception that
\* nothing catches ends the interpreter with a traceback and exit code 1.
ExitCode ==
  CASE pc = "done" -> 0
    [] pc = "fatal" -> 1
    [] pc = "crashed" -> 1

\* C12: a run whose command line was accepted ends with exit code 1 exactly
\* when the duplicate-project error stopped it, and with exit code 0
\* otherwise, also when the update of a mirror failed.
C12_ExitCode ==
  Ended => (ExitCode = 1 <=> pc = "fatal")

----------------------------------------------------------------------------
(* Options.__init__: the command line *)

MaxArgs == 5

\* the words of a command line; "src" and "dest" stand for normalised paths,
\* which os.path.normpath leaves as they are
Tokens == {"-h", "-r", "-f", "-n", "--name=bk", "--name=", "src", "dest"}

ArgLists == UNION {[1..n -> Tokens] : n \in 0..MaxArgs}

HelpFlags      == << "-h", "--help" >>
RecursiveFlags == << "-r", "-R", "--recursive" >>
ForceFlags     == << "-f", "--force-remote" >>

\* arg.startswith('--name=') and arg[7:]
NameArgs == ("--name=bk" :> "bk") @@ ("--name=" :> "")
startswith_name(arg) == arg \in DOMAIN NameArgs

\* x in list, list.index(x), list.pop(k) and list.remove(x) of Python
In(x, list) == \E k \in 1..Len(list) : list[k] = x
index(list, x) ==
  CHOOSE k \in 1..Len(list) : list[k] = x /\ \A m \in 1..(k - 1) : list[m] # x
pop(list, k) == SubSeq(list, 1, k - 1) \o SubSeq(list, k + 1, Len(list))
remove(list, x) == pop(list, index(list, x))

\* for option in flags: if option in args
any_in(list, flags) == \E k \in 1..Len(flags) : In(flags[k], list)

\* for option in flags: if option in args: args.remove(option)
RECURSIVE remove_each(_, _)
remove_each(list, flags) ==
  IF flags = << >> THEN list
  ELSE remove_each(IF In(Head(flags), list) THEN remove(list, Head(flags)) ELSE list,
                   Tail(flags))

\* exit_with_usage(exit_code, message)
exit_with_usage(o, exit_code, message) ==
  [o EXCEPT !.status = IF exit_code = 0 THEN "usage0" ELSE "usage1",
            !.message = message]

\* lines 116-118
parse_help(o) ==
  IF any_in(o.args, HelpFlags) THEN exit_with_usage(o, 0, "") ELSE o

\* lines 120-123
parse_recursive(o) ==
  IF any_in(o.args, RecursiveFlags)
  THEN [o EXCEPT !.recursive = TRUE, !.args = remove_each(o.args, RecursiveFlags)]
  ELSE o

\* the force loop without line 128
parse_force_KeepsName(o) ==
  IF any_in(o.args, ForceFlags)
  THEN [o EXCEPT !.force_remote = TRUE,
                 !.args = remove_each(o.args, ForceFlags)]
  ELSE o

\* lines 125-129
parse_force(o) ==
  IF any_in(o.args, ForceFlags)
  THEN [o EXCEPT !.force_remote = TRUE, !.remote_name = None,
                 !.args = remove_each(o.args, ForceFlags)]
  ELSE o

\* lines 131-134: args.pop(i) raises IndexError when "-n" was the last word
parse_n(o) ==
  IF In("-n", o.args)
  THEN LET k == index(o.args, "-n")
           rest == pop(o.args, k)
       IN  IF k > Len(rest)
           THEN [o EXCEPT !.status = "IndexError", !.args = rest]
           ELSE [o EXCEPT !.remote_name = rest[k], !.args = pop(rest, k)]
  ELSE o

\* lines 136-139: the loop over a copy of args
RECURSIVE parse_name(_, _)
parse_name(o, copy) ==
  IF copy = << >> THEN o
  ELSE parse_name(IF startswith_name(Head(copy))
                  THEN [o EXCEPT !.remote_name = NameArgs[Head(copy)],
                                 !.args = remove(o.args, Head(copy))]
                  ELSE o,
                  Tail(copy))

\* lines 141-145
parse_positional(o) ==
  IF Len(o.args) < 2
  THEN exit_with_usage(o, 1, "Error -- too few arguments")
  ELSE [o EXCEPT !.dest = o.args[Len(o.args)],
                 !.sources = SubSeq(o.args, 1, Len(o.args) - 1),
                 !.args = SubSeq(o.args, 1, Len(o.args) - 1)]

\* lines 147-148: None and the empty string are false
check_name(o) ==
  IF o.remote_name \in {None, ""}
  THEN exit_with_usage(o, 1, "A remote name must be specified.")
  ELSE [o EXCEPT !.status = "ok"]

\* Options(args): the object, or how the constructor ended; a statement
\* runs only when nothing has ended the constructor before it
Options(argv) ==
  LET o0 == [NotParsed EXCEPT !.args = argv]
      o1 == parse_help(o0)
      o2 == IF o1.status = "none" THEN parse_recursive(o1) ELSE o1
      o3 == IF o2.status = "none" THEN parse_force(o2) ELSE o2
      o4 == IF o3.status = "none" THEN parse_n(o3) ELSE o3
      o5 == IF o4.status = "none" THEN parse_name(o4, o4.args) ELSE o4
      o6 == IF o5.status = "none" THEN parse_positional(o5) ELSE o5
  IN  IF o6.status = "none" THEN check_name(o6) ELSE o6

\* the exit code of a constructor that did not return
OptionsExitCode(o) ==
  CASE o.status = "usage0" -> 0
    [] o.status = "usage1" -> 1
    [] o.status = "IndexError" -> 1

\* the state before the script is started
OptionsInit ==
  /\ args \in ArgLists
  /\ options = NotParsed
  /\ recursive = FALSE
  /\ force_remote = FALSE
  /\ sources = << >>
  /\ pc = "options"
  /\ i = 1
  /\ mirrors = << >>
  /\ j = 1
  /\ dirty = [r \in RepoRoots |-> FALSE]
  /\ remotes = [r \in RepoRoots |-> [n \in {"origin"} |-> OriginUrl]]
  /\ refs = InitialRefs
  /\ bare = [p \in DestPaths |-> [exists |-> FALSE, refs |-> {}]]
  /\ stdout = << >>
  /\ stderr = << >>
  /\ log = << >>
  /\ lastUpdate = NoUpdate

\* options = Options(sys.argv) ends in the given way
Construct(status) ==
  /\ pc = "options"
  /\ options.status = "none"
  /\ Options(args).status = status
  /\ options' = Options(args)

Untouched == << sources, i, mirrors, j, fs, out, log, lastUpdate, args >>

\* -h or --help: the usage text, exit code 0
OptionsHelp ==
  /\ Construct("usage0")
  /\ pc' = "exit"
  /\ UNCHANGED << recursive, force_remote, Untouched >>

\* too few arguments or no remote name: the usage text, exit code 1
OptionsUsageError ==
  /\ Construct("usage1")
  /\ pc' = "exit"
  /\ UNCHANGED << recursive, force_remote, Untouched >>

\* "-n" without a word after it: IndexError, a traceback
OptionsRaises ==
  /\ Construct("IndexError")
  /\ pc' = "exit"
  /\ UNCHANGED << recursive, force_remote, Untouched >>

\* the constructor returns; the BackupManager is built from the object
OptionsReturn ==
  /\ Construct("ok")
  /\ recursive' = options'.recursive
  /\ force_remote' = options'.force_remote
  /\ pc' = "manager"
  /\ UNCHANGED Untouched

OptionsNext ==
  \/ OptionsHelp
  \/ OptionsUsageError
  \/ OptionsRaises
  \/ OptionsReturn

SpecOptions == OptionsInit /\ [][OptionsNext]_vars

----------------------------------------------------------------------------
(* C13 *)

\* the command line asks for force-remote, gives a name with "-n" or a
\* non-empty "--name=", asks for the usage text
ForceGiven == any_in(args, ForceFlags)
NameGiven ==
  \/ In("-n", args)
  \/ \E k \in 1..Len(args) : startswith_name(args[k]) /\ NameArgs[args[k]] # ""
HelpGiven == any_in(args, HelpFlags)

\* the constructor has ended, one way or the other
Constructed == options.status # "none"

\* C13 as stated: with force-remote the constructor returns only if a
\* non-empty remote name was given with -n or --name=, wherever the flags
\* stand; in every other case with force-remote the script exits with code 1
\* and no BackupManager is built; without force-remote and without a name
\* the remote name is "gitbackup".
C13_ForceRequiresName ==
  Constructed =>
    /\ (ForceGiven /\ options.status = "ok") =>
         (NameGiven /\ options.remote_name \notin {None, ""})
    /\ (ForceGiven /\ ~NameGiven) =>
         (options.status # "ok" /\ OptionsExitCode(options) = 1 /\ pc = "exit")
    /\ (~ForceGiven /\ ~NameGiven /\ options.status = "ok") =>
         options.remote_name = "gitbackup"

\* C13, amended: the same, except that a command line that also holds -h or
\* --help ends with the usage text and exit code 0 before the force-remote
\* flag is looked at.
C13_ForceRequiresNameUnlessHelp ==
  Constructed =>
    /\ (ForceGiven /\ options.status = "ok") =>
         (NameGiven /\ options.remote_name \notin {None, ""})
    /\ (ForceGiven /\ ~NameGiven) =>
         /\ options.status # "ok"
         /\ pc = "exit"
         /\ OptionsExitCode(options) = IF HelpGiven THEN 0 ELSE 1
    /\ (~ForceGiven /\ ~NameGiven /\ options.status = "ok") =>
         options.remote_name = "gitbackup"

\* force-remote was accepted with a name that stands before the flag
C13_Witness ==
  /\ args = << "-n", "src", "-f", "src", "dest" >>
  /\ options.status = "ok"
  /\ options.force_remote
  /\ options.remote_name = "src"
  /\ pc = "manager"

----------------------------------------------------------------------------
(* C14 *)

\* a step in which mirror.update() was called, and the primitives it called
UpdateStep == Len(log') > Len(log)
NewCalls == SubSeq(log', Len(log) + 1, Len(log'))
NewCall(op) == \E e \in 1..Len(NewCalls) : NewCalls[e].op = op
NewCallOk(op) == \E e \in 1..Len(NewCalls) : NewCalls[e].op = op /\ NewCalls[e].ok

\* what C14 says of one call of update on the mirror self
OnlyConfiguredRemote(self) ==
  LET old == remotes[self.repo]
      new == remotes'[self.repo]
      name == self.remote_name
  IN  /\ \A r \in RepoRoots \ {self.repo} : remotes'[r] = remotes[r]
      /\ \A n \in RemoteNames \ {name} :
           /\ (n \in DOMAIN new) <=> (n \in DOMAIN old)
           /\ n \in DOMAIN old => new[n] = old[n]
      /\ (name \notin DOMAIN old /\ NewCallOk("create_remote")) =>
           (name \in DOMAIN new /\ new[name] = self.remote_url)
      /\ (name \in DOMAIN old /\ old[name] # self.remote_url) =>
           /\ force_remote
           /\ lastUpdate'.ok =>
                /\ NewCallOk("delete_remote")
                /\ NewCallOk("create_remote")
                /\ name \in DOMAIN new /\ new[name] = self.remote_url
      /\ (name \in DOMAIN old /\ old[name] = self.remote_url) =>
           (new = old /\ ~NewCall("delete_remote") /\ ~NewCall("create_remote"))

\* C14: update changes at most the remote entry with the configured name:
\* an absent one is created, one with another URL (which only force-remote
\* lets through) is deleted and created again with the mirror URL, and every
\* remote with another name keeps its name and URL; nothing but update
\* changes a remote.
C14_OnlyConfiguredRemote ==
  [][ IF UpdateStep THEN OnlyConfiguredRemote(Current(mirrors, j))
      ELSE remotes' = remotes ]_vars

\* a remote with another URL was replaced and origin is still there
C14_Witness ==
  \E k \in 1..Len(mirrors) :
    LET self == mirrors[k]
    IN  /\ CallsOf("delete_remote", self.source) # {}
        /\ \E e \in CallsOf("push", self.source) : log[e].ok
        /\ remotes[self.repo] = WithBackupRemote(self.remote_url)

----------------------------------------------------------------------------
(* C15 *)

\* C15: a mirror path changes only in a call of update on an accepted mirror
\* with that path; Repo.init is called only when the path does not exist, so
\* an existing path is never initialised again, and neither discovery nor
\* validation nor a rejected candidate creates a directory.
C15_InitOnlyWhenAbsent ==
  [][ /\ \A p \in DestPaths :
           bare'[p] # bare[p] =>
             (UpdateStep /\ p = Current(mirrors, j).remote_path)
      /\ UpdateStep =>
           LET path == Current(mirrors, j).remote_path
           IN  /\ NewCall("init") => ~bare[path].exists
               /\ bare[path].exists => bare'[path].exists
               /\ lastUpdate'.ok => (NewCallOk("init") <=> ~bare[path].exists)
    ]_vars

\* a run that rejected a candidate and pushed into a mirror path that was
\* there already, without initialising it; only accepted mirrors have a path
C15_Witness ==
  /\ pc = "done"
  /\ Len(stderr) > 0
  /\ \E k \in 1..Len(mirrors) :
       /\ CallsOf("init", mirrors[k].source) = {}
       /\ \E e \in CallsOf("push", mirrors[k].source) : log[e].ok
  /\ \A p \in DestPaths :
       bare[p].exists => \E k \in 1..Len(mirrors) : mirrors[k].remote_path = p

----------------------------------------------------------------------------
(* C16 *)

\* the configured remote name of the mirror's source points at the mirror URL
Bound(self, rs) ==
  /\ self.remote_name \in DOMAIN rs[self.repo]
  /\ rs[self.repo][self.remote_name] = self.remote_url

\* C16: when update raises after it created the remote, the remote stays;
\* and when the last update of a source raised at init or push, leaving the
\* remote bound, and the source has not changed since, the next update of
\* that source neither deletes nor creates a remote, and if it returns, the
\* remote configuration is the one the failed call left and the mirror's
\* refs equal the source's refs, as after a single update that returned.
C16_FailureKeepsBinding ==
  [][ UpdateStep =>
        LET self == Current(mirrors, j)
        IN  /\ NewCallOk("create_remote") => Bound(self, remotes')
            /\ (/\ lastUpdate.source = self.source
                /\ ~lastUpdate.ok
                /\ Bound(self, remotes)) =>
                 /\ ~NewCall("delete_remote")
                 /\ ~NewCall("create_remote")
                 /\ remotes' = remotes
                 /\ lastUpdate'.ok =>
                      bare'[self.remote_path] =
                        [exists |-> TRUE, refs |-> refs[self.repo]]
    ]_vars

\* an update returned after the one before it, on the same unchanged source,
\* had raised with the remote bound: only init and push were left to do
C16_Witness ==
  /\ lastUpdate.ok
  /\ lastUpdate.retry
  /\ CallsOf("create_remote", lastUpdate.source) = {}
  /\ \E e \in CallsOf("init", lastUpdate.source) : log[e].ok
  /\ remotes[lastUpdate.source] =
       WithBackupRemote(Mirror(remote_name, lastUpdate.source, Dest).remote_url)

----------------------------------------------------------------------------
(* C17 *)

\* a segment of the path is the metadata directory
HasGitSegment(d) == \E k \in 1..Len(d) : d[k] = ".git"

\* C17: in recursive mode a directory below a walked root is a candidate if
\* and only if no segment of its path is ".git"; a directory whose name only
\* holds that text inside a longer name is a candidate.
C17_GitSegmentFilter ==
  recursive =>
    /\ \A k \in 1..Len(sources) : ~HasGitSegment(sources[k])
    /\ \A k \in 1..Len(sources), d \in Dirs :
         (IsPrefix(sources[k], d) /\ ~HasGitSegment(d)) => In(d, sources)

----------------------------------------------------------------------------
(* C18 *)

\* C18: in recursive mode no path stands twice in the candidate list, also
\* when the given roots repeat or lie inside each other, so no repository is
\* validated twice and the run never stops with the duplicate-project error.
C18_RecursiveCandidatesDistinct ==
  recursive =>
    /\ \A k, l \in 1..Len(sources) : k # l => sources[k] # sources[l]
    /\ \A k, l \in 1..Len(mirrors) : k # l => mirrors[k].source # mirrors[l].source
    /\ pc # "fatal"

\* a finished recursive run over /work and /work/alpha, which lies inside it:
\* /work/alpha was accepted and pushed once
C18_Witness ==
  /\ recursive
  /\ pc = "done"
  /\ sources = ManagerSources(<< <<"work">>, <<"work", "alpha">> >>, TRUE)
  /\ Cardinality(CallsOf("push", <<"work", "alpha">>)) = 1

----------------------------------------------------------------------------
(* C19 *)

\* a source that passes validation stands twice among the candidates
GivenTwice ==
  \E k, l \in 1..Len(sources) :
    k < l /\ sources[k] = sources[l] /\ Validation(sources[k]) = "ok"

\* C19: in non-recursive mode the given paths are kept as they are, and when
\* a source that passes validation is given twice, also under two spellings
\* of one absolute path, the run stops with the duplicate-project error and
\* never reaches an update: no git primitive is called.
C19_GivenTwiceIsFatal ==
  (~recursive /\ GivenTwice) =>
    /\ pc \in {"build", "fatal"}
    /\ log = << >>
    /\ pc = "fatal" =>
         /\ stderr # << >>
         /\ stderr[Len(stderr)].base_msg = "Backup failed"
         /\ stderr[Len(stderr)].reason = "Duplicate project name"

\* /work/alpha given as /work/alpha and as /work/./alpha: the run has stopped
C19_Witness ==
  /\ ~recursive
  /\ sources =
       ManagerSources(<< <<"work", "alpha">>, <<"work", ".", "alpha">> >>, FALSE)
  /\ GivenTwice
  /\ pc = "fatal"
  /\ log = << >>

----------------------------------------------------------------------------
(* C20 *)

\* the place of a primitive in the order of update
Rank(op) ==
  CASE op = "delete_remote" -> 1
    [] op = "create_remote" -> 2
    [] op = "init" -> 3
    [] op = "push" -> 4

\* C20: one call of update runs its steps in the order remote
\* reconciliation, init, push, and stops at the first that raises: when the
\* push is called, the source has the configured remote with the mirror URL
\* and the mirror path exists, each either found so or made so by an earlier
\* step of the same call that succeeded.
C20_StepsInOrder ==
  [][ UpdateStep =>
        LET self == Current(mirrors, j)
            path == self.remote_path
        IN  /\ \A e, f \in 1..Len(NewCalls) :
                 e < f => /\ Rank(NewCalls[e].op) < Rank(NewCalls[f].op)
                          /\ NewCalls[e].ok
            /\ NewCall("push") =>
                 /\ Bound(self, remotes) \/ NewCallOk("create_remote")
                 /\ Bound(self, remotes')
                 /\ bare[path].exists \/ NewCallOk("init")
                 /\ bare'[path].exists
    ]_vars

\* an update that created the remote, initialised the mirror and pushed
C20_Witness ==
  \E e, f, g \in LogIdx :
    /\ e < f /\ f < g
    /\ log[e].op = "create_remote" /\ log[f].op = "init" /\ log[g].op = "push"
    /\ log[e].source = log[g].source /\ log[f].source = log[g].source
    /\ log[e].ok /\ log[f].ok /\ log[g].ok

====
